---- MODULE Spec2Model ----
(***************************************************************************)
(* Visitor check-in web client: the public registration form, the admin    *)
(* login, the token store, the API client with its 401 hook, the route     *)
(* guard and the visitor list viewer.                                      *)
(*                                                                         *)
(* Text is a sequence of one-character strings, so that trim, lower-case,  *)
(* substring search and the validation patterns are computed, not assumed. *)
(***************************************************************************)
EXTENDS Integers, Sequences, FiniteSets, TLC

\* ------------------------------------------------------------------------
\* Bounds of the model
\* ------------------------------------------------------------------------
\* Largest number of requests awaiting their response at once.
MaxInflight == 2
\* Largest number of pending banner timers of the registration form.
MaxTimers == 2

\* ------------------------------------------------------------------------
\* JavaScript values
\* ------------------------------------------------------------------------
\* An absent field / undefined / null text value (never equal to real text).
Undefined == <<"#undefined">>
\* localStorage.getItem of a missing key.
Null == "null"
\* The empty string.
Empty == <<>>

\* JS truthiness of a text value.
Truthy(s) == s # Undefined /\ s # Empty
\* a || b on text values.
OrElse(a, b) == IF Truthy(a) THEN a ELSE b

IsWs(c) == c \in {" ", "\t"}
IsDigit(c) == c \in {"0", "1", "2", "3", "4", "5", "6", "7", "8", "9"}

MinOf(S) == CHOOSE x \in S : \A y \in S : x <= y
MaxOf(S) == CHOOSE x \in S : \A y \in S : x >= y

\* String.prototype.trim
Trim(s) ==
  LET keep == {i \in 1..Len(s) : ~IsWs(s[i])}
  IN IF keep = {} THEN Empty ELSE SubSeq(s, MinOf(keep), MaxOf(keep))

\* String.prototype.toLowerCase
UpperLetters ==
  <<"A", "B", "C", "D", "E", "F", "G", "H", "I", "J", "K", "L", "M",
    "N", "O", "P", "Q", "R", "S", "T", "U", "V", "W", "X", "Y", "Z">>
LowerLetters ==
  <<"a", "b", "c", "d", "e", "f", "g", "h", "i", "j", "k", "l", "m",
    "n", "o", "p", "q", "r", "s", "t", "u", "v", "w", "x", "y", "z">>
LowerOf ==
  [c \in {UpperLetters[i] : i \in 1..Len(UpperLetters)} |->
     LowerLetters[CHOOSE i \in 1..Len(UpperLetters) : UpperLetters[i] = c]]
LowerChar(c) == IF c \in DOMAIN LowerOf THEN LowerOf[c] ELSE c
ToLowerCase(s) == [i \in 1..Len(s) |-> LowerChar(s[i])]

\* String.prototype.includes: sub occurs in s as a contiguous substring.
Includes(s, sub) ==
  \E i \in 0..(Len(s) - Len(sub)) : \A k \in 1..Len(sub) : s[i + k] = sub[k]

\* ------------------------------------------------------------------------
\* Registration form: validation (VisitorForm.validateForm)
\* ------------------------------------------------------------------------
purposeOptions ==
  {"Business Meeting", "Interview", "Delivery", "Maintenance", "Personal Visit", "Other"}

\* /^[^\s@]+@[^\s@]+\.[^\s@]+$/.test(s)
emailRegexTest(s) ==
  \E i, j \in 1..Len(s) :
    /\ 1 < i /\ i + 1 < j /\ j < Len(s)
    /\ s[i] = "@"
    /\ s[j] = "."
    /\ \A k \in 1..Len(s) : k # i => (~IsWs(s[k]) /\ s[k] # "@")

\* s.replace(/[\s-]/g, '')
StripSpacesHyphens(s) == SelectSeq(s, LAMBDA c : ~(IsWs(c) \/ c = "-"))

\* /^[0-9]{10,15}$/.test(s)
phoneRegexTest(s) ==
  /\ Len(s) >= 10
  /\ Len(s) <= 15
  /\ \A i \in 1..Len(s) : IsDigit(s[i])

NoError == ""

NameError(fd) ==
  IF Trim(fd.name) = Empty THEN "Full name is required"
  ELSE IF Len(Trim(fd.name)) < 2 THEN "Name must be at least 2 characters"
  ELSE NoError

EmailError(fd) ==
  IF Trim(fd.email) = Empty THEN "Email is required"
  ELSE IF ~emailRegexTest(fd.email) THEN "Invalid email format"
  ELSE NoError

\* Mutant: the phone number is only required, its digits are not checked.
PhoneErrorLax(fd) ==
  IF Trim(fd.phone) = Empty THEN "Phone number is required" ELSE NoError
PhoneError(fd) ==
  IF Trim(fd.phone) = Empty THEN "Phone number is required"
  ELSE IF ~phoneRegexTest(StripSpacesHyphens(fd.phone))
       THEN "Invalid phone number (10-15 digits)"
  ELSE NoError

PurposeError(fd) ==
  IF fd.purpose = "" THEN "Purpose of visit is required" ELSE NoError

\* The object newErrors that validateForm builds: a key only for a failing field.
validateForm(fd) ==
  LET all == [name |-> NameError(fd), email |-> EmailError(fd),
              phone |-> PhoneError(fd), purpose |-> PurposeError(fd)]
  IN [f \in {g \in DOMAIN all : all[g] # NoError} |-> all[f]]

\* Object.keys(newErrors).length === 0
IsValid(newErrors) == DOMAIN newErrors = {}

\* errors[name] as a JS truthy test (a missing key and '' are both falsy).
HasError(errs, f) == f \in DOMAIN errs /\ errs[f] # NoError

\* setErrors(prev => ({...prev, [name]: ''})) when errors[name] is truthy
ClearFieldError(errs, f) == IF HasError(errs, f) THEN [errs EXCEPT ![f] = NoError] ELSE errs

\* ------------------------------------------------------------------------
\* Login form: validation (AdminLogin.validateForm)
\* ------------------------------------------------------------------------
PasswordError(fd) ==
  IF fd.password = Empty THEN "Password is required"
  ELSE IF Len(fd.password) < 6 THEN "Password must be at least 6 characters"
  ELSE NoError

loginValidateForm(fd) ==
  LET all == [email |-> EmailError(fd), password |-> PasswordError(fd)]
  IN [f \in {g \in DOMAIN all : all[g] # NoError} |-> all[f]]

\* ------------------------------------------------------------------------
\* API client (services/api): transport outcomes and the uniform result
\* ------------------------------------------------------------------------
Ops == {"submitVisitorForm", "adminLogin", "getVisitors", "getVisitorById",
        "deleteVisitor", "getDashboardStats"}

\* What the transport hands back for one request.  status 0: no response at
\* all (timeout, network failure).  message / detail: the fields of the
\* backend's error payload, "" when absent or empty.  code, errmsg: the
\* fields code and message of the error object.
HttpOk == [status |-> 200, message |-> "", detail |-> "", code |-> "", errmsg |-> ""]
HttpError(st, msg, det) ==
  [status |-> st, message |-> msg, detail |-> det, code |-> "ERR_BAD_RESPONSE",
   errmsg |-> "Request failed"]
Timeout ==
  [status |-> 0, message |-> "", detail |-> "", code |-> "ECONNABORTED",
   errmsg |-> "timeout of 30000ms exceeded"]
NetworkError ==
  [status |-> 0, message |-> "", detail |-> "", code |-> "ERR_NETWORK",
   errmsg |-> "Network Error"]

Outcomes ==
  {HttpOk, Timeout, NetworkError}
  \cup {HttpError(st, msg, det) :
          st \in {400, 401, 500},
          msg \in {"", "backend message"},
          det \in {"", "backend detail"}}

\* Mutant: every outcome is taken for a success.
IsSuccessAlways(out) == TRUE
IsSuccess(out) == out.status = 200

GenericError(op) ==
  CASE op = "submitVisitorForm" -> "Failed to submit visitor form. Please try again."
    [] op = "getVisitors" -> "Failed to fetch visitors. Please try again."
    [] op = "getVisitorById" -> "Failed to fetch visitor details."
    [] op = "deleteVisitor" -> "Failed to delete visitor."
    [] op = "getDashboardStats" -> "Failed to fetch dashboard statistics."
    [] OTHER -> "Invalid credentials. Please try again."

\* Mutant: the backend's message is passed on without a fallback text.
MessageOnly(op, out) == out.message
\* error.response?.data?.message || '<generic text>'
MessageOrGeneric(op, out) ==
  IF out.message # "" THEN out.message ELSE GenericError(op)

\* The catch block of adminLogin.
adminLoginError(out) ==
  IF out.code = "ECONNABORTED"
    THEN "Request timed out. Please check your network connection."
  ELSE IF out.errmsg = "Network Error"
    THEN "Network error. Please ensure the server is running."
  ELSE IF out.detail # "" THEN out.detail
  ELSE IF out.message # "" THEN out.message
  ELSE GenericError("adminLogin")

\* The failure text of operation op for transport outcome out.
ErrorText(op, out) ==
  IF op = "adminLogin" THEN adminLoginError(out) ELSE MessageOrGeneric(op, out)

\* The value every API operation returns to its caller: the try block's
\* {success: true, data} or the catch block's {success: false, error}.
ApiResult(op, out, data) ==
  IF IsSuccess(out)
  THEN [success |-> TRUE, data |-> data]
  ELSE [success |-> FALSE, error |-> ErrorText(op, out)]

\* ------------------------------------------------------------------------
\* Time.  An instant is a number of time units since the epoch; DayLen
\* units make a day.  The UTC calendar date of an instant is its day number,
\* the local calendar date is the day number of the instant shifted by the
\* zone offset tz (the browser's time zone, in units).
\* ------------------------------------------------------------------------
DayLen == 2

\* A timestamp field that is missing or empty (falsy in JS).
Absent == -1
\* A timestamp field holding text that Date cannot parse (truthy in JS).
Garbage == -2
\* The time value of an Invalid Date.
NaN == -3

TimeZones == {-1, 0, 1}

\* new Date(x).getTime()
ParseDate(x) == IF x >= 0 THEN x ELSE NaN

\* new Date(x).toISOString().split('T')[0], as a day number (x valid)
UtcDate(t) == t \div DayLen
\* The calendar date that toLocaleString and a date input show in zone z.
LocalDate(t, z) == (t + z) \div DayLen

\* ------------------------------------------------------------------------
\* Visitor records as the backend returns them
\* ------------------------------------------------------------------------
\* v.checkin_time || v.entry_time
RawTime(v) == IF v.checkin_time # Absent THEN v.checkin_time ELSE v.entry_time
TimeOf(v) == ParseDate(RawTime(v))

\* (v.name || v.full_name || '')
DisplayName(v) == OrElse(OrElse(v.name, v.full_name), Empty)
\* (v.phone || v.phone_number || '')
DisplayPhone(v) == OrElse(OrElse(v.phone, v.phone_number), Empty)

\* ------------------------------------------------------------------------
\* Visitor list viewer: applyFilters (admin/Visitors)
\* ------------------------------------------------------------------------
NameMatches(v, search) == Includes(ToLowerCase(DisplayName(v)), search)
EmailMatches(v, search) == Includes(ToLowerCase(v.email), search)
PhoneMatches(v, search) == Includes(DisplayPhone(v), search)

\* The callback of the search filter, search being searchTerm.toLowerCase().
SearchKeeps(v, search) ==
  NameMatches(v, search) \/ EmailMatches(v, search) \/ PhoneMatches(v, search)

\* v.email.toLowerCase() raises a TypeError when the email is missing; the
\* || chain reaches it only when the name did not match.
SearchThrows(v, search) == ~NameMatches(v, search) /\ v.email = Undefined

PurposeKeeps(v, purposeFilter) == v.purpose = purposeFilter

\* toISOString raises a RangeError on an Invalid Date.
DateThrows(v) == TimeOf(v) = NaN
StartKeeps(v, start) == UtcDate(TimeOf(v)) >= start
EndKeeps(v, end) == UtcDate(TimeOf(v)) <= end

\* The value the sort comparator returns; a NaN result counts as +0.
Compare(a, b, order) ==
  IF TimeOf(a) = NaN \/ TimeOf(b) = NaN THEN 0
  ELSE IF order = "desc" THEN TimeOf(b) - TimeOf(a)
  ELSE TimeOf(a) - TimeOf(b)

\* ECMAScript's consistency condition on the comparator that can fail here:
\* "equal" must be transitive over the elements being sorted.
ConsistentComparator(list, order) ==
  \/ \A i \in 1..Len(list) : TimeOf(list[i]) # NaN
  \/ \A i, j, k \in 1..Len(list) :
       (Compare(list[i], list[j], order) = 0 /\ Compare(list[j], list[k], order) = 0)
         => Compare(list[i], list[k], order) = 0

\* x placed behind every element that does not sort after it (stable).
RECURSIVE InsertStable(_, _, _)
InsertStable(sorted, x, order) ==
  IF sorted = <<>> THEN <<x>>
  ELSE IF Compare(sorted[Len(sorted)], x, order) <= 0 THEN Append(sorted, x)
  ELSE Append(InsertStable(SubSeq(sorted, 1, Len(sorted) - 1), x, order),
              sorted[Len(sorted)])

RECURSIVE StableSort(_, _)
StableSort(list, order) ==
  IF list = <<>> THEN <<>>
  ELSE InsertStable(StableSort(SubSeq(list, 1, Len(list) - 1), order),
                    list[Len(list)], order)

Reorderings(list) ==
  {[i \in 1..Len(list) |-> list[p[i]]] :
     p \in {q \in [1..Len(list) -> 1..Len(list)] :
              \A i, j \in 1..Len(list) : i # j => q[i] # q[j]}}

\* Array.prototype.sort: a stable sort under a consistent comparator; the
\* order is implementation-defined under an inconsistent one.
SortOutcomes(list, order) ==
  IF ConsistentComparator(list, order)
  THEN {StableSort(list, order)}
  ELSE Reorderings(list)

AfterSearch(list, searchTerm) ==
  IF searchTerm # Empty
  THEN SelectSeq(list, LAMBDA v : SearchKeeps(v, ToLowerCase(searchTerm)))
  ELSE list

AfterPurpose(list, purposeFilter) ==
  IF purposeFilter # "" /\ purposeFilter # "All"
  THEN SelectSeq(list, LAMBDA v : PurposeKeeps(v, purposeFilter))
  ELSE list

AfterStart(list, range) ==
  IF range.start # Absent
  THEN SelectSeq(list, LAMBDA v : StartKeeps(v, range.start))
  ELSE list

AfterEnd(list, range) ==
  IF range.end # Absent
  THEN SelectSeq(list, LAMBDA v : EndKeeps(v, range.end))
  ELSE list

Elems(list) == {list[i] : i \in 1..Len(list)}

\* Whether applyFilters raises before it reaches setFilteredVisitors.
ApplyFiltersThrows(list, searchTerm, purposeFilter, range) ==
  LET s1 == AfterSearch(list, searchTerm)
      s2 == AfterPurpose(s1, purposeFilter)
      s3 == AfterStart(s2, range)
  IN \/ searchTerm # Empty
        /\ \E v \in Elems(list) : SearchThrows(v, ToLowerCase(searchTerm))
     \/ range.start # Absent /\ \E v \in Elems(s2) : DateThrows(v)
     \/ range.end # Absent /\ \E v \in Elems(s3) : DateThrows(v)

\* The lists applyFilters can hand to setFilteredVisitors.
ApplyFiltersLists(list, searchTerm, purposeFilter, range, order) ==
  SortOutcomes(
    AfterEnd(AfterStart(AfterPurpose(AfterSearch(list, searchTerm), purposeFilter),
                        range), range),
    order)

\* ------------------------------------------------------------------------
\* Dashboard aggregation (admin/Dashboard fetchStats).  The calendar of the
\* model: day 0 is a Sunday and the first day of a month, a week has 7 days
\* and every month MonthLen days.
\* ------------------------------------------------------------------------
MonthLen == 10

\* visitor.checkin_time || visitor.entry_time || visitor.created_at || Date.now()
StatsRawTime(v, now) ==
  IF v.checkin_time # Absent THEN v.checkin_time
  ELSE IF v.entry_time # Absent THEN v.entry_time
  ELSE IF v.created_at # Absent THEN v.created_at
  ELSE now

\* new Date(now.getFullYear(), now.getMonth(), now.getDate()).getTime()
TodayStart(now, z) == LocalDate(now, z) * DayLen - z
\* now.getDay()
WeekDay(now, z) == LocalDate(now, z) % 7
\* new Date(now.setDate(now.getDate() - now.getDay())).getTime(): the Sunday
\* of the current week at the current time of day; now is moved there too.
WeekStart(now, z) == now - WeekDay(now, z) * DayLen
\* new Date(now.getFullYear(), now.getMonth(), 1).getTime(), read from the
\* Date object that setDate has already moved to the week's Sunday.
MonthStart(now, z) ==
  (LocalDate(WeekStart(now, z), z) \div MonthLen) * MonthLen * DayLen - z

CountFrom(list, now, from) ==
  Cardinality({i \in 1..Len(list) :
                 LET t == ParseDate(StatsRawTime(list[i], now))
                 IN t # NaN /\ t >= from})

\* The stats object the reduce builds, before the count override.
LocalStats(list, now, z) ==
  [total_visitors |-> Len(list),
   today_visitors |-> CountFrom(list, now, TodayStart(now, z)),
   this_week_visitors |-> CountFrom(list, now, WeekStart(now, z)),
   this_month_visitors |-> CountFrom(list, now, MonthStart(now, z))]

ZeroStats ==
  [total_visitors |-> 0, today_visitors |-> 0,
   this_week_visitors |-> 0, this_month_visitors |-> 0]

\* The body of a successful list response: a bare array ("array"), a
\* paginated object with results and count ("paginated"), an object of
\* pre-aggregated totals ("totals"), or anything else ("other").
ListBody(kind, list, count, totals) ==
  [kind |-> kind, list |-> list, count |-> count, totals |-> totals]

\* The array fetchVisitors / fetchStats take out of the response body.
BodyList(data) == IF data.kind \in {"array", "paginated"} THEN data.list ELSE <<>>

\* The value fetchStats passes to setStats on success.
ComputeStats(data, now, z) ==
  IF data.kind = "totals" THEN data.totals
  ELSE LET st == LocalStats(BodyList(data), now, z)
       IN IF data.kind # "array" /\ data.count # 0
          THEN [st EXCEPT !.total_visitors = data.count]
          ELSE st

\* ------------------------------------------------------------------------
\* Token store (services/auth) and route guard (routes/ProtectedRoute)
\* ------------------------------------------------------------------------
\* isAuthenticated(): !!getAuthToken()
isAuthenticated(token) == token # Null

\* Mutant: the guard lets everyone through.
ProtectedRouteOpen(token) == "Authenticated"
\* The guard's answer for the stored token.
ProtectedRoute(token) ==
  IF ~isAuthenticated(token) THEN "Unauthenticated" ELSE "Authenticated"

LoginPath == "/admin/login"
DashboardPath == "/admin/dashboard"
VisitorsPath == "/admin/visitors"
Protected == {DashboardPath, VisitorsPath}
Paths == {"/", "/success", LoginPath, DashboardPath, VisitorsPath}
\* What a user can ask the router for: the routes, /admin and an unknown path.
Requests == Paths \cup {"/admin", "/nowhere"}

\* The path the route table of App renders for a requested path.
Route(req, token) ==
  IF req \in Protected
  THEN IF ProtectedRoute(token) = "Authenticated" THEN req ELSE LoginPath
  ELSE IF req = "/admin" THEN LoginPath
  ELSE IF req \in Paths THEN req
  ELSE "/"

\* window.location.pathname.startsWith('/admin') && pathname !== '/admin/login'
InAdminArea(path) == path \in {DashboardPath, VisitorsPath, "/admin"}

\* setAuthToken: a falsy token is not stored.
setAuthToken(stored, token) == IF token # Null THEN token ELSE stored

\* ------------------------------------------------------------------------
\* State
\* ------------------------------------------------------------------------
VARIABLES
  location,          \* window.location.pathname
  guard,             \* the guard's answer for the route last rendered
                     \* ("none" when the route has no guard)
  crashed,           \* an effect raised: React has unmounted the whole tree
  authToken,         \* localStorage authToken (Null when missing)
  adminUser,         \* localStorage adminUser (Null when missing)
  inflight,          \* requests awaiting their response, oldest first
  tz,                \* the browser's time zone offset
  lastEvent,         \* the handler that ran last (observer)
  vfData, vfErrors, vfLoading, vfStatus, vfTimers,     \* VisitorForm
  alData, alErrors, alLoading, loginError,             \* AdminLogin
  visitors, filteredVisitors, vLoading, searchTerm,    \* Visitors
  purposeFilter, dateRange, currentPage, sortOrder,
  stats, dLoading,                                     \* Dashboard
  apiCall                                              \* one API call and its result

storeVars == <<authToken, adminUser>>
routeVars == <<location, guard>>
vfVars == <<vfData, vfErrors, vfLoading, vfStatus, vfTimers>>
alVars == <<alData, alErrors, alLoading, loginError>>
viewVars == <<visitors, filteredVisitors, vLoading, searchTerm,
              purposeFilter, dateRange, currentPage, sortOrder>>
dashVars == <<stats, dLoading>>
screenVars == <<vfVars, alVars, viewVars, dashVars>>
vars == <<routeVars, crashed, storeVars, inflight, tz, lastEvent, screenVars, apiCall>>

\* ------------------------------------------------------------------------
\* Requests in flight
\* ------------------------------------------------------------------------
\* A request: the operation, whether the component that awaits it is still
\* mounted (live), the token the request interceptor attached, and, for a
\* deletion, the record id and the visitors array its handler closed over.
Request(op, token, id, snap) ==
  [op |-> op, live |-> TRUE, tok |-> token, id |-> id, snap |-> snap]

RemoveAt(seq, i) == SubSeq(seq, 1, i - 1) \o SubSeq(seq, i + 1, Len(seq))

\* Unmounting: the awaiting handlers stay, their components are gone.
StaleAll(reqs) == [i \in 1..Len(reqs) |-> [reqs[i] EXCEPT !.live = FALSE]]

\* The requests the mount effects of a screen send.
MountRequests(path, token) ==
  IF path = DashboardPath THEN <<Request("getDashboardStats", token, 0, <<>>)>>
  ELSE IF path = VisitorsPath THEN <<Request("getVisitors", token, 0, <<>>)>>
  ELSE <<>>

\* What the observer records of a handler: its kind, the API operation it
\* concerns, the HTTP status handled (0: none), whether the awaiting
\* component was still mounted, and whether window.alert was called.
Event(kind, op, status, live, alert) ==
  [kind |-> kind, op |-> op, status |-> status, live |-> live, alert |-> alert]
UiEvent(kind) == Event(kind, "", 0, TRUE, FALSE)
Response(r, out) == Event("response", r.op, out.status, r.live, FALSE)

\* ------------------------------------------------------------------------
\* Component state at mount
\* ------------------------------------------------------------------------
VfInitData ==
  [name |-> Empty, email |-> Empty, phone |-> Empty, host |-> Empty,
   purpose |-> "", message |-> Empty]
AlInitData == [email |-> Empty, password |-> Empty]
NoErrors == [f \in {} |-> NoError]
NoRange == [start |-> Absent, end |-> Absent]

\* Every component in its useState initial values.
ResetScreens ==
  /\ vfData' = VfInitData /\ vfErrors' = NoErrors /\ vfLoading' = FALSE
  /\ vfStatus' = Null /\ vfTimers' = 0
  /\ alData' = AlInitData /\ alErrors' = NoErrors /\ alLoading' = FALSE
  /\ loginError' = ""
  /\ visitors' = <<>> /\ filteredVisitors' = <<>> /\ vLoading' = TRUE
  /\ searchTerm' = Empty /\ purposeFilter' = "" /\ dateRange' = NoRange
  /\ currentPage' = 1 /\ sortOrder' = "desc"
  /\ stats' = ZeroStats /\ dLoading' = TRUE

\* ------------------------------------------------------------------------
\* Navigation
\* ------------------------------------------------------------------------
\* navigate(req) called by the application or by a link / the history, with
\* rest the requests still in flight and token the stored token.  A request
\* for the current path keeps the mounted screen; any other request unmounts
\* it and mounts the routed one.  With the tree gone only the URL changes.
GoTo(req, rest, token) ==
  /\ IF crashed
     THEN /\ location' = req
          /\ guard' = guard
          /\ inflight' = rest
          /\ UNCHANGED screenVars
     ELSE IF req = location
     THEN /\ location' = location
          /\ guard' = guard
          /\ inflight' = rest
          /\ UNCHANGED screenVars
     ELSE /\ location' = Route(req, token)
          /\ guard' = IF req \in Protected THEN ProtectedRoute(token) ELSE "none"
          /\ inflight' = StaleAll(rest) \o MountRequests(Route(req, token), token)
          /\ ResetScreens
  /\ Len(inflight') <= MaxInflight

\* A document load of req: a fresh page, nothing in flight, the tree mounted.
LoadPage(req, token) ==
  /\ location' = Route(req, token)
  /\ guard' = IF req \in Protected THEN ProtectedRoute(token) ELSE "none"
  /\ inflight' = MountRequests(Route(req, token), token)
  /\ crashed' = FALSE
  /\ ResetScreens

\* The user follows a link or moves through the history.
Navigate(req) ==
  /\ ~crashed
  /\ req # location
  /\ GoTo(req, inflight, authToken)
  /\ lastEvent' = UiEvent("navigate")
  /\ UNCHANGED <<crashed, storeVars, tz, apiCall>>

\* The user loads a URL or reloads the page.
PageLoad(req) ==
  /\ LoadPage(req, authToken)
  /\ lastEvent' = UiEvent("load")
  /\ UNCHANGED <<storeVars, tz, apiCall>>

\* Sidebar.handleLogout
Logout ==
  /\ ~crashed
  /\ location \in Protected
  /\ authToken' = Null
  /\ adminUser' = Null
  /\ GoTo(LoginPath, inflight, Null)
  /\ lastEvent' = UiEvent("logout")
  /\ UNCHANGED <<crashed, tz, apiCall>>

\* ------------------------------------------------------------------------
\* The response hook of the API client
\* ------------------------------------------------------------------------
Unauthorized(out) == out.status = 401
\* The interceptor assigns window.location.href: the document is replaced.
ForcesLogin(out, path) == Unauthorized(out) /\ InAdminArea(path)
\* localStorage.removeItem('authToken') / removeItem('adminUser') on a 401
TokenAfter(out, token) == IF Unauthorized(out) THEN Null ELSE token
\* Mutant: the hook forgets to remove the profile.
UserAfterKept(out, user) == user
UserAfter(out, user) == IF Unauthorized(out) THEN Null ELSE user

\* The part every response handler shares when the hook replaces the
\* document: the store is cleared and the login page is loaded afresh.
ForcedLogin ==
  /\ authToken' = Null
  /\ adminUser' = Null
  /\ LoadPage(LoginPath, Null)

\* ------------------------------------------------------------------------
\* Registration form (components/VisitorForm)
\* ------------------------------------------------------------------------
\* handleChange for the input named f receiving value v
VfHandleChange(f, v) ==
  /\ ~crashed
  /\ location = "/"
  /\ vfData' = [vfData EXCEPT ![f] = v]
  /\ vfErrors' = ClearFieldError(vfErrors, f)
  /\ lastEvent' = UiEvent("handleChange")
  /\ UNCHANGED <<routeVars, crashed, storeVars, inflight, tz, apiCall,
                 vfLoading, vfStatus, vfTimers, alVars, viewVars, dashVars>>

\* Mutant: the submit button is never disabled.
SubmitNeverDisabled(loading) == FALSE
\* disabled={loading} on the submit button of either form: while it holds,
\* neither a click nor the Enter key submits the form.
SubmitDisabled(loading) == loading

\* handleSubmit
VfHandleSubmit ==
  /\ ~crashed
  /\ location = "/"
  /\ ~SubmitDisabled(vfLoading)
  /\ vfStatus' = Null
  /\ vfErrors' = validateForm(vfData)
  /\ IF IsValid(validateForm(vfData))
     THEN /\ Len(inflight) < MaxInflight
          /\ vfLoading' = TRUE
          /\ inflight' =
               Append(inflight, Request("submitVisitorForm", authToken, 0, <<>>))
     ELSE UNCHANGED <<vfLoading, inflight>>
  /\ lastEvent' = Event("handleSubmit", "submitVisitorForm", 0, TRUE, FALSE)
  /\ UNCHANGED <<routeVars, crashed, storeVars, tz, apiCall,
                 vfData, vfTimers, alVars, viewVars, dashVars>>

\* The response to request i of submitVisitorForm arrives with outcome out.
SubmitResponse(i, out) ==
  /\ i \in 1..Len(inflight)
  /\ inflight[i].op = "submitVisitorForm"
  /\ LET r == inflight[i]
         rest == RemoveAt(inflight, i)
         result == ApiResult(r.op, out, <<>>)
     IN /\ lastEvent' = Response(r, out)
        /\ IF ForcesLogin(out, location)
           THEN ForcedLogin
           ELSE /\ authToken' = TokenAfter(out, authToken)
                /\ adminUser' = UserAfter(out, adminUser)
                /\ crashed' = crashed
                /\ IF result.success
                   THEN GoTo("/success", rest, authToken)
                   ELSE /\ inflight' = rest
                        /\ UNCHANGED <<routeVars, alVars, viewVars, dashVars,
                                       vfData, vfErrors>>
                        /\ IF r.live
                           THEN /\ vfTimers < MaxTimers
                                /\ vfLoading' = FALSE
                                /\ vfStatus' = "error"
                                /\ vfTimers' = vfTimers + 1
                           ELSE UNCHANGED <<vfLoading, vfStatus, vfTimers>>
  /\ UNCHANGED <<tz, apiCall>>

\* A 5 s timer started by a failed submission of the mounted form fires.
VfTimerFires ==
  /\ ~crashed
  /\ location = "/"
  /\ vfTimers > 0
  /\ vfTimers' = vfTimers - 1
  /\ vfStatus' = Null
  /\ lastEvent' = UiEvent("timer")
  /\ UNCHANGED <<routeVars, crashed, storeVars, inflight, tz, apiCall,
                 vfData, vfErrors, vfLoading, alVars, viewVars, dashVars>>

\* ------------------------------------------------------------------------
\* Login form (admin/AdminLogin)
\* ------------------------------------------------------------------------
AlHandleChange(f, v) ==
  /\ ~crashed
  /\ location = LoginPath
  /\ alData' = [alData EXCEPT ![f] = v]
  /\ alErrors' = ClearFieldError(alErrors, f)
  /\ loginError' = ""
  /\ lastEvent' = UiEvent("handleChange")
  /\ UNCHANGED <<routeVars, crashed, storeVars, inflight, tz, apiCall,
                 alLoading, vfVars, viewVars, dashVars>>

AlHandleSubmit ==
  /\ ~crashed
  /\ location = LoginPath
  /\ ~SubmitDisabled(alLoading)
  /\ loginError' = ""
  /\ alErrors' = loginValidateForm(alData)
  /\ IF IsValid(loginValidateForm(alData))
     THEN /\ Len(inflight) < MaxInflight
          /\ alLoading' = TRUE
          /\ inflight' = Append(inflight, Request("adminLogin", authToken, 0, <<>>))
     ELSE UNCHANGED <<alLoading, inflight>>
  /\ lastEvent' = Event("handleSubmit", "adminLogin", 0, TRUE, FALSE)
  /\ UNCHANGED <<routeVars, crashed, storeVars, tz, apiCall,
                 alData, vfVars, viewVars, dashVars>>

\* The body of a successful login response: the value of its access field,
\* the value of its token field (Null when the field is absent) and the
\* JSON text of the profile the handler stores.
LoginBody(access, token, user) == [access |-> access, token |-> token, user |-> user]

\* The token the backend issued, under whichever field it sent it.
IssuedToken(data) == IF data.access # Null THEN data.access ELSE data.token

\* The response to request i of adminLogin arrives.
LoginResponse(i, out, data) ==
  /\ i \in 1..Len(inflight)
  /\ inflight[i].op = "adminLogin"
  /\ LET r == inflight[i]
         rest == RemoveAt(inflight, i)
         result == ApiResult(r.op, out, data)
     IN /\ lastEvent' = Response(r, out)
        /\ IF ForcesLogin(out, location)
           THEN ForcedLogin
           ELSE /\ crashed' = crashed
                /\ IF result.success
                   THEN \* login(access, userToStore); navigate('/admin/dashboard')
                        /\ authToken' = setAuthToken(authToken, result.data.access)
                        /\ adminUser' = result.data.user
                        /\ GoTo(DashboardPath, rest, authToken')
                   ELSE /\ authToken' = TokenAfter(out, authToken)
                        /\ adminUser' = UserAfter(out, adminUser)
                        /\ inflight' = rest
                        /\ UNCHANGED <<routeVars, vfVars, viewVars, dashVars,
                                       alData, alErrors>>
                        /\ IF r.live
                           THEN /\ alLoading' = FALSE
                                /\ loginError' = result.error
                           ELSE UNCHANGED <<alLoading, loginError>>
  /\ UNCHANGED <<tz, apiCall>>

\* ------------------------------------------------------------------------
\* Visitor list screen (admin/Visitors)
\* ------------------------------------------------------------------------
itemsPerPage == 10

\* Mutant: the slice starts one record late.
PageItemsShifted(list, page) ==
  SubSeq(list, (page - 1) * itemsPerPage + 2,
         IF page * itemsPerPage < Len(list) THEN page * itemsPerPage ELSE Len(list))
\* currentItems: filteredVisitors.slice(indexOfFirstItem, indexOfLastItem)
PageItems(list, page) ==
  LET indexOfLastItem == page * itemsPerPage
      indexOfFirstItem == indexOfLastItem - itemsPerPage
      first == IF indexOfFirstItem < 0 THEN 0 ELSE indexOfFirstItem
      last == IF indexOfLastItem < Len(list) THEN indexOfLastItem ELSE Len(list)
  IN IF indexOfLastItem <= 0 THEN <<>> ELSE SubSeq(list, first + 1, last)

\* Math.ceil(filteredVisitors.length / itemsPerPage)
TotalPages(list) == (Len(list) + itemsPerPage - 1) \div itemsPerPage

\* Mutant: the next button is never disabled.
PageButtonsOpen(list, page) == 1..(page + 1)
\* The page numbers the pagination bar offers: previous, next and the
\* numbered buttons (first, last, current and its neighbours).
PageButtons(list, page) ==
  {n \in 1..TotalPages(list) :
     \/ n = 1
     \/ n = TotalPages(list)
     \/ (n >= page - 1 /\ n <= page + 1)}
  \cup (IF page # 1 THEN {page - 1} ELSE {})
  \cup (IF page # TotalPages(list) THEN {page + 1} ELSE {})

\* The table, with its delete buttons and pagination bar, is rendered.
TableShown ==
  /\ ~crashed
  /\ location = VisitorsPath
  /\ ~vLoading
  /\ filteredVisitors # <<>>

\* Mutant: applyFilters leaves the page number alone.
PageKept(page) == page
\* setCurrentPage(1) at the end of applyFilters
PageAfterFilter(page) == 1

\* The render that follows a change of visitors or of a filter input, and
\* the effect that runs applyFilters after it: vis, st, pf, dr, so are the
\* new visitors, searchTerm, purposeFilter, dateRange and sortOrder, ld the
\* new loading flag, rest the requests still in flight.  When applyFilters
\* raises, the tree is unmounted.
FilterEffect(vis, st, pf, dr, so, ld, rest) ==
  IF ApplyFiltersThrows(vis, st, pf, dr)
  THEN /\ crashed' = TRUE
       /\ inflight' = StaleAll(rest)
       /\ ResetScreens
  ELSE /\ crashed' = crashed
       /\ inflight' = rest
       /\ visitors' = vis
       /\ searchTerm' = st
       /\ purposeFilter' = pf
       /\ dateRange' = dr
       /\ sortOrder' = so
       /\ vLoading' = ld
       /\ \E sorted \in ApplyFiltersLists(vis, st, pf, dr, so) :
            filteredVisitors' = sorted
       /\ currentPage' = PageAfterFilter(currentPage)
       /\ UNCHANGED <<vfVars, alVars, dashVars>>

OnVisitors == ~crashed /\ location = VisitorsPath

\* fetchVisitors called by the Refresh button
Refresh ==
  /\ OnVisitors
  /\ Len(inflight) < MaxInflight
  /\ vLoading' = TRUE
  /\ inflight' = Append(inflight, Request("getVisitors", authToken, 0, <<>>))
  /\ lastEvent' = UiEvent("refresh")
  /\ UNCHANGED <<routeVars, crashed, storeVars, tz, apiCall, vfVars, alVars, dashVars,
                 visitors, filteredVisitors, searchTerm, purposeFilter, dateRange,
                 currentPage, sortOrder>>

\* The response to request i of getVisitors arrives.
VisitorsResponse(i, out, data) ==
  /\ i \in 1..Len(inflight)
  /\ inflight[i].op = "getVisitors"
  /\ LET r == inflight[i]
         rest == RemoveAt(inflight, i)
         result == ApiResult(r.op, out, data)
     IN /\ lastEvent' = Response(r, out)
        /\ IF ForcesLogin(out, location)
           THEN ForcedLogin
           ELSE /\ authToken' = TokenAfter(out, authToken)
                /\ adminUser' = UserAfter(out, adminUser)
                /\ UNCHANGED routeVars
                /\ IF r.live /\ result.success
                   THEN FilterEffect(BodyList(result.data), searchTerm, purposeFilter,
                                     dateRange, sortOrder, FALSE, rest)
                   ELSE /\ crashed' = crashed
                        /\ inflight' = rest
                        /\ vLoading' = IF r.live THEN FALSE ELSE vLoading
                        /\ UNCHANGED <<vfVars, alVars, dashVars, visitors,
                                       filteredVisitors, searchTerm, purposeFilter,
                                       dateRange, currentPage, sortOrder>>
  /\ UNCHANGED <<tz, apiCall>>

\* Mutant: the request is sent whatever the prompt's answer.
ConfirmIgnored(answer) == TRUE
\* if (!window.confirm(...)) return;
ConfirmAccepted(answer) == answer

\* What the observer records of a click on a delete button: the record and
\* the answer given to the prompt.
DeleteEvent(id, confirmed) ==
  [kind |-> "handleDelete", op |-> "deleteVisitor", status |-> 0, live |-> TRUE,
   alert |-> FALSE, id |-> id, confirmed |-> confirmed]

\* handleDelete(id) from the delete button of a row of the shown page;
\* confirmed is the answer to window.confirm.
HandleDelete(id, confirmed) ==
  /\ TableShown
  /\ \E v \in Elems(PageItems(filteredVisitors, currentPage)) : v.id = id
  /\ IF ConfirmAccepted(confirmed)
     THEN /\ Len(inflight) < MaxInflight
          /\ inflight' = Append(inflight, Request("deleteVisitor", authToken, id, visitors))
     ELSE UNCHANGED inflight
  /\ lastEvent' = DeleteEvent(id, confirmed)
  /\ UNCHANGED <<routeVars, crashed, storeVars, tz, apiCall, screenVars>>

\* The response to request i of deleteVisitor arrives.
DeleteResponse(i, out) ==
  /\ i \in 1..Len(inflight)
  /\ inflight[i].op = "deleteVisitor"
  /\ LET r == inflight[i]
         rest == RemoveAt(inflight, i)
         result == ApiResult(r.op, out, <<>>)
     IN /\ lastEvent' = Event("response", r.op, out.status, r.live, ~result.success)
        /\ IF ForcesLogin(out, location)
           THEN ForcedLogin
           ELSE /\ authToken' = TokenAfter(out, authToken)
                /\ adminUser' = UserAfter(out, adminUser)
                /\ UNCHANGED routeVars
                /\ IF r.live /\ result.success
                   THEN \* setVisitors(visitors.filter((v) => v.id !== id))
                        FilterEffect(SelectSeq(r.snap, LAMBDA v : v.id # r.id),
                                     searchTerm, purposeFilter, dateRange, sortOrder,
                                     vLoading, rest)
                   ELSE /\ crashed' = crashed
                        /\ inflight' = rest
                        /\ UNCHANGED screenVars
  /\ UNCHANGED <<tz, apiCall>>

\* A filter input changes: the state setter, the render and the effect.
FilterChange(kind, st, pf, dr, so) ==
  /\ OnVisitors
  /\ FilterEffect(visitors, st, pf, dr, so, vLoading, inflight)
  /\ lastEvent' = UiEvent(kind)
  /\ UNCHANGED <<routeVars, storeVars, tz, apiCall>>

\* onChange of the search box / its clear button
SetSearchTerm(s) ==
  /\ s # searchTerm
  /\ FilterChange("setSearchTerm", s, purposeFilter, dateRange, sortOrder)

\* onChange of the purpose select (its All option carries the value '')
SetPurposeFilter(pf) ==
  /\ pf # purposeFilter
  /\ pf \in purposeOptions \cup {""}
  /\ FilterChange("setPurposeFilter", searchTerm, pf, dateRange, sortOrder)

\* onChange of the Date From input
SetDateStart(d) ==
  /\ d # dateRange.start
  /\ FilterChange("setDateRange", searchTerm, purposeFilter,
                  [dateRange EXCEPT !.start = d], sortOrder)

\* onChange of the Date To input
SetDateEnd(d) ==
  /\ d # dateRange.end
  /\ FilterChange("setDateRange", searchTerm, purposeFilter,
                  [dateRange EXCEPT !.end = d], sortOrder)

\* clearFilters
ClearFilters == FilterChange("clearFilters", Empty, "", NoRange, sortOrder)

\* onClick of the sort toggle
ToggleSort ==
  FilterChange("toggleSort", searchTerm, purposeFilter, dateRange,
               IF sortOrder = "desc" THEN "asc" ELSE "desc")

\* `${cell}` for a cell that may be undefined
CellText(x) == IF x = Undefined THEN <<"u", "n", "d", "e", "f", "i", "n", "e", "d">> ELSE x

\* ` ${new Date(v.checkin_time || v.entry_time).toLocaleString()}`: the
\* local date, a comma, the local time of day.
DateCell(v, z) ==
  IF TimeOf(v) = NaN THEN <<" ", "Invalid Date">>
  ELSE <<" ", ToString(LocalDate(TimeOf(v), z)), ",", " ", ToString((TimeOf(v) + z) % DayLen)>>

\* The row exportToCSV builds for one record.
CsvRow(v, z) ==
  <<CellText(OrElse(v.name, v.full_name)),
    CellText(v.email),
    CellText(OrElse(v.phone, v.phone_number)),
    <<v.purpose>>,
    OrElse(OrElse(v.message, v.additional_details), Empty),
    DateCell(v, z)>>

\* Array.prototype.join over texts
RECURSIVE Join(_, _)
Join(texts, sep) ==
  IF texts = <<>> THEN <<>>
  ELSE IF Len(texts) = 1 THEN texts[1]
  ELSE texts[1] \o sep \o Join(Tail(texts), sep)

csvHeaders == <<"Name", "Email", "Phone", "Purpose", "Message", "Check-in Time">>

\* row.map((cell) => `"${cell}"`).join(',')
CsvLine(row) == Join([i \in 1..Len(row) |-> <<"\"">> \o row[i] \o <<"\"">>], <<",">>)

\* csvContent
CsvContent(list, z) ==
  Join(<<Join([i \in 1..Len(csvHeaders) |-> <<csvHeaders[i]>>], <<",">>)>>
         \o [i \in 1..Len(list) |-> CsvLine(CsvRow(list[i], z))],
       <<"\n">>)

\* exportToCSV at instant now: the file handed to the browser's download.
ExportToCSV(now) ==
  /\ OnVisitors
  /\ lastEvent' =
       [kind |-> "exportToCSV", op |-> "", status |-> 0, live |-> TRUE, alert |-> FALSE,
        file |-> CsvContent(filteredVisitors, tz),
        download |-> <<"visitors_", ToString(UtcDate(now)), ".csv">>]
  /\ UNCHANGED <<routeVars, crashed, storeVars, inflight, tz, apiCall, screenVars>>

\* paginate(n) from a button of the pagination bar
Paginate(n) ==
  /\ TableShown
  /\ TotalPages(filteredVisitors) > 1
  /\ n \in PageButtons(filteredVisitors, currentPage)
  /\ n # currentPage
  /\ currentPage' = n
  /\ lastEvent' = UiEvent("paginate")
  /\ UNCHANGED <<routeVars, crashed, storeVars, inflight, tz, apiCall, vfVars, alVars,
                 dashVars, visitors, filteredVisitors, vLoading, searchTerm,
                 purposeFilter, dateRange, sortOrder>>

\* ------------------------------------------------------------------------
\* Dashboard (admin/Dashboard)
\* ------------------------------------------------------------------------
\* fetchStats called by the Refresh Stats button
RefreshStats ==
  /\ ~crashed
  /\ location = DashboardPath
  /\ Len(inflight) < MaxInflight
  /\ dLoading' = TRUE
  /\ inflight' = Append(inflight, Request("getDashboardStats", authToken, 0, <<>>))
  /\ lastEvent' = UiEvent("refreshStats")
  /\ UNCHANGED <<routeVars, crashed, storeVars, tz, apiCall, vfVars, alVars, viewVars,
                 stats>>

\* What the observer records of a handled stats response: the event, and
\* for a success handled by the mounted dashboard the body aggregated and
\* the instant of the aggregation.
StatsEvent(r, out, data, now) ==
  IF r.live /\ IsSuccess(out)
  THEN [kind |-> "response", op |-> r.op, status |-> out.status, live |-> r.live,
        alert |-> FALSE, data |-> data, now |-> now]
  ELSE Response(r, out)

\* The response to request i of getDashboardStats arrives at instant now.
StatsResponse(i, out, data, now) ==
  /\ i \in 1..Len(inflight)
  /\ inflight[i].op = "getDashboardStats"
  /\ LET r == inflight[i]
         rest == RemoveAt(inflight, i)
         result == ApiResult(r.op, out, data)
     IN /\ lastEvent' = StatsEvent(r, out, data, now)
        /\ IF ForcesLogin(out, location)
           THEN ForcedLogin
           ELSE /\ authToken' = TokenAfter(out, authToken)
                /\ adminUser' = UserAfter(out, adminUser)
                /\ crashed' = crashed
                /\ inflight' = rest
                /\ dLoading' = IF r.live THEN FALSE ELSE dLoading
                /\ stats' = IF r.live /\ result.success
                            THEN ComputeStats(result.data, now, tz)
                            ELSE stats
                /\ UNCHANGED <<routeVars, vfVars, alVars, viewVars>>
  /\ UNCHANGED <<tz, apiCall>>

\* ------------------------------------------------------------------------
\* Inputs: what users type and what the backend answers
\* ------------------------------------------------------------------------
\* The instant unit units into day day (UTC).
At(day, unit) == day * DayLen + unit

BlankVisitor ==
  [id |-> 0, name |-> Undefined, full_name |-> Undefined, email |-> Undefined,
   phone |-> Undefined, phone_number |-> Undefined, purpose |-> "",
   message |-> Undefined, additional_details |-> Undefined,
   checkin_time |-> Absent, entry_time |-> Absent, created_at |-> Absent]

\* The two records of the specification's scenario.
Alice ==
  [BlankVisitor EXCEPT !.id = 1, !.name = <<"A", "l", "i", "c", "e">>, !.email = <<"a", "l", "i", "c", "e", "@", "x", ".", "i", "o">>,
                       !.phone = <<"0", "1", "2", "3", "4", "5", "6", "7", "8", "9">>, !.purpose = "Interview",
                       !.checkin_time = At(1, 0)]
Bob ==
  [BlankVisitor EXCEPT !.id = 2, !.name = <<"B", "o", "b">>, !.email = <<"b", "o", "b", "@", "x", ".", "i", "o">>,
                       !.phone = <<"5", "5", "5", "0", "0", "0", "1", "1", "1", "1">>, !.purpose = "Delivery",
                       !.checkin_time = At(15, 0)]
\* A record under the backend's other field names, checked in late in the
\* UTC day 15.
Carol ==
  [BlankVisitor EXCEPT !.id = 3, !.full_name = <<"C", "a", "r", "o", "l">>, !.email = <<"c", "a", "r", "o", "l", "@", "x", ".", "i", "o">>,
                       !.phone_number = <<"5", "5", "5", "-", "0", "0", "0", "-", "2", "2", "2", "2">>, !.purpose = "Interview",
                       !.entry_time = At(15, DayLen - 1)]
\* A record whose phone holds letters and whose message holds a double
\* quote and a line break.
Dora ==
  [BlankVisitor EXCEPT !.message = <<"a", "\"", "\n", "\"", "b">>,
                       !.id = 4, !.name = <<"D", "o", "r", "a">>, !.email = <<"d", "o", "r", "a", "@", "x", ".", "i", "o">>,
                       !.phone = <<"5", "5", "5", " ", "C", "A", "L", "L", " ", "0">>, !.purpose = "Other",
                       !.checkin_time = At(16, 0)]
\* A record without an email.
NoMail ==
  [BlankVisitor EXCEPT !.id = 5, !.name = <<"E", "v", "e">>, !.phone = <<"0", "1", "2", "3", "4", "5", "6", "7", "8", "9">>,
                       !.purpose = "Delivery", !.checkin_time = At(2, 0)]
\* A record without any timestamp.
NoTime ==
  [BlankVisitor EXCEPT !.id = 6, !.name = <<"F", "a", "y">>, !.email = <<"f", "a", "y", "@", "x", ".", "i", "o">>,
                       !.phone = <<"5", "5", "5", "0", "0", "0", "1", "1", "1", "1">>, !.purpose = "Interview"]

\* Registration form input values.
VfName == {<<"A", "l">>}
VfEmail == {<<"a", "@", "b", ".", "c">>}
VfPhone == {<<"0", "1", "2", "3", "4", "5", "6", "7", "8", "9">>}
VfPurpose == {"Interview"}

\* The (field, value) pairs typed into the registration form.
VfInputs ==
  ({"name"} \X VfName) \cup ({"email"} \X VfEmail)
  \cup ({"phone"} \X VfPhone) \cup ({"purpose"} \X VfPurpose)

\* The (field, value) pairs typed into the login form.
AlInputs == ({"email"} \X {<<"a", "@", "b", ".", "c">>}) \cup ({"password"} \X {<<"s", "e", "c", "r", "e", "t">>, <<"1", "2", "3", "4", "5">>})

\* Login response bodies: {access, refresh, username, ...} and the shape the
\* README documents, {token, user: {...}}.
LoginBodies ==
  {LoginBody("jwt-1", Null, "{username}"), LoginBody(Null, "jwt-1", "{token,user}")}

SomeTotals ==
  [total_visitors |-> 150, today_visitors |-> 12,
   this_week_visitors |-> 45, this_month_visitors |-> 98]

\* List response bodies the session model draws from.
AppListBodies ==
  {ListBody("array", <<Alice, Bob>>, 0, ZeroStats),
   ListBody("totals", <<>>, 0, SomeTotals)}

\* Transport outcomes the session model draws from: success, 401 and a
\* server error with a message.
AppOutcomes == {HttpOk, HttpError(401, "", ""), HttpError(500, "backend message", "")}

\* Instants at which the dashboard aggregates in the session model.
AppNows == {At(15, 0)}

\* ------------------------------------------------------------------------
\* The session model: routes, token store, both forms, the admin screens'
\* requests
\* ------------------------------------------------------------------------
NoCall ==
  [op |-> "", out |-> HttpOk, done |-> FALSE,
   result |-> [success |-> TRUE, data |-> <<>>], shown |-> ""]

\* Every component in its useState initial values.
InitScreens ==
  /\ vfData = VfInitData /\ vfErrors = NoErrors /\ vfLoading = FALSE
  /\ vfStatus = Null /\ vfTimers = 0
  /\ alData = AlInitData /\ alErrors = NoErrors /\ alLoading = FALSE
  /\ loginError = ""
  /\ visitors = <<>> /\ filteredVisitors = <<>> /\ vLoading = TRUE
  /\ searchTerm = Empty /\ purposeFilter = "" /\ dateRange = NoRange
  /\ currentPage = 1 /\ sortOrder = "desc"
  /\ stats = ZeroStats /\ dLoading = TRUE

\* The application freshly loaded at the registration form, store empty.
InitPublic ==
  /\ location = "/"
  /\ guard = "none"
  /\ crashed = FALSE
  /\ authToken = Null
  /\ adminUser = Null
  /\ inflight = <<>>
  /\ lastEvent = UiEvent("load")
  /\ InitScreens

Init ==
  /\ InitPublic
  /\ tz = 0
  /\ apiCall = NoCall

UserNavigates == \E req \in Requests : Navigate(req)
UserLoadsPage == \E req \in Requests : PageLoad(req)
VisitorTypes == \E in \in VfInputs : VfHandleChange(in[1], in[2])
SubmitAnswered == \E i \in 1..MaxInflight, out \in AppOutcomes : SubmitResponse(i, out)
AdminTypes == \E in \in AlInputs : AlHandleChange(in[1], in[2])
LoginAnswered ==
  \E i \in 1..MaxInflight, out \in AppOutcomes, data \in LoginBodies :
    LoginResponse(i, out, data)
VisitorsAnswered ==
  \E i \in 1..MaxInflight, out \in AppOutcomes, data \in AppListBodies :
    VisitorsResponse(i, out, data)
AdminDeletes == \E id \in 1..2, confirmed \in BOOLEAN : HandleDelete(id, confirmed)
DeleteAnswered == \E i \in 1..MaxInflight, out \in AppOutcomes : DeleteResponse(i, out)
StatsAnswered ==
  \E i \in 1..MaxInflight, out \in AppOutcomes, data \in AppListBodies, now \in AppNows :
    StatsResponse(i, out, data, now)

Next ==
  \/ UserNavigates
  \/ UserLoadsPage
  \/ Logout
  \/ VisitorTypes
  \/ VfHandleSubmit
  \/ SubmitAnswered
  \/ VfTimerFires
  \/ AdminTypes
  \/ AlHandleSubmit
  \/ LoginAnswered
  \/ Refresh
  \/ VisitorsAnswered
  \/ AdminDeletes
  \/ DeleteAnswered
  \/ RefreshStats
  \/ StatsAnswered

Spec == Init /\ [][Next]_vars

\* ------------------------------------------------------------------------
\* Properties of the session model
\* ------------------------------------------------------------------------
\* The step just taken handled a response with HTTP status 401.
Handled401 == lastEvent.kind = "response" /\ lastEvent.status = 401

\* C1: whenever the response to any API call carries HTTP 401, the step that
\* handles it leaves the token store without token and without profile, the
\* guard would answer Unauthenticated, and a location inside the admin area
\* has become the login screen.
C1_UnauthorizedClearsSession ==
  [][Handled401' =>
       /\ authToken' = Null
       /\ adminUser' = Null
       /\ ~isAuthenticated(authToken')
       /\ (location \in Protected => location' = LoginPath)
       /\ location' \notin Protected]_vars

\* A 401 answered the list request of the mounted visitors screen: the
\* session is gone and the login screen is shown.
C1_Witness ==
  /\ lastEvent = Event("response", "getVisitors", 401, TRUE, FALSE)
  /\ location = LoginPath
  /\ authToken = Null

\* C2: a protected screen is displayed only with a token in the store and
\* after the guard answered Authenticated; the guard answers
\* Unauthenticated exactly when no token is stored, and the navigation then
\* ends on the login screen.
C2_GuardedScreens ==
  ~crashed =>
    /\ (location \in Protected => guard = "Authenticated")
    /\ (guard = "Authenticated" => authToken # Null)
    /\ (guard = "Unauthenticated" => authToken = Null /\ location = LoginPath)
    /\ (authToken = Null => location \notin Protected)

\* A navigation to a protected path without a token was sent to the login
\* screen.
C2_Witness ==
  /\ lastEvent.kind = "navigate"
  /\ guard = "Unauthenticated"
  /\ location = LoginPath
  /\ authToken = Null

\* The step just taken handled a successful admin-login response.
LoginSucceeded ==
  /\ lastEvent.kind = "response"
  /\ lastEvent.op = "adminLogin"
  /\ lastEvent.status = 200

\* C3: after every admin-login call reported successful, the store holds a
\* token and the profile, the guard answers Authenticated and the dashboard
\* is shown.
C3_LoginStoresToken ==
  (LoginSucceeded /\ ~crashed) =>
    /\ authToken # Null
    /\ adminUser # Null
    /\ guard = "Authenticated"
    /\ location = DashboardPath

\* The number of requests of op whose awaiting component is still mounted.
LiveCount(op) ==
  Cardinality({i \in 1..Len(inflight) : inflight[i].op = op /\ inflight[i].live})

InitApi ==
  /\ InitPublic
  /\ tz = 0
  /\ \E op \in Ops, out \in Outcomes :
       apiCall = [NoCall EXCEPT !.op = op, !.out = out]

\* The operation runs to its return statement, in the try block or in the
\* catch block.
ApiReturns ==
  /\ ~apiCall.done
  /\ apiCall.op \in Ops
  /\ apiCall' = [apiCall EXCEPT !.done = TRUE,
                                !.result = ApiResult(apiCall.op, apiCall.out, "body")]
  /\ UNCHANGED <<routeVars, crashed, storeVars, inflight, tz, lastEvent, screenVars>>

\* The text the caller's failure branch puts before the user: the fixed
\* banner of the registration form, the login form's loginError, the fixed
\* alert of the delete handler.
ShownText(op, result) ==
  CASE op = "submitVisitorForm" ->
         "Unable to register your visit. Please try again or contact reception."
    [] op = "deleteVisitor" -> "Failed to delete visitor. Please try again."
    [] OTHER -> result.error

UserFacing == {"submitVisitorForm", "adminLogin", "deleteVisitor"}

\* The failure branch of the handler that awaited the operation.
CallerShows ==
  /\ apiCall.done
  /\ apiCall.op \in UserFacing
  /\ ~apiCall.result.success
  /\ apiCall.shown = ""
  /\ apiCall' = [apiCall EXCEPT !.shown = ShownText(apiCall.op, apiCall.result)]
  /\ UNCHANGED <<routeVars, crashed, storeVars, inflight, tz, lastEvent, screenVars>>

NextApi ==
  \/ ApiReturns
  \/ CallerShows

SpecApi == InitApi /\ [][NextApi]_vars

\* C4: every API operation returns, for every transport outcome, either
\* {success: true, data} (exactly on a 2xx response) or {success: false,
\* error} with a non-empty error text; there is no third way out.
C4_UniformResult ==
  apiCall.done =>
    LET result == apiCall.result
    IN IF IsSuccess(apiCall.out)
       THEN DOMAIN result = {"success", "data"} /\ result.success
       ELSE /\ DOMAIN result = {"success", "error"}
            /\ ~result.success
            /\ result.error # ""

\* A list request answered by a 500 without payload returned the generic
\* failure text.
C4_Witness ==
  /\ apiCall.done
  /\ apiCall.op = "getVisitors"
  /\ apiCall.out = HttpError(500, "", "")
  /\ apiCall.result = [success |-> FALSE, error |-> GenericError("getVisitors")]

\* ------------------------------------------------------------------------
\* The registration form alone, with inputs around every validation rule
\* ------------------------------------------------------------------------
FormNames == {Empty, <<" ", "A", " ">>, <<"A", "l">>}
FormEmails ==
  {<<"a", "@", "b">>, <<" ", "a", "@", "b", ".", "c">>, <<"a", "@", "b", ".", "c">>}
FormPhones ==
  {<<"1", "2", "a">>,
   <<"1", "2", "3", "4", "5", "6", "7", "8", "9">>,
   <<"0", "1", "2", "-", "3", "4", "5", " ", "6", "7", "8", "9">>,
   <<"0", "1", "2", "3", "4", "5", "6", "7", "8", "9", "0", "1", "2", "3", "4", "5">>,
   <<"0", "1", "2", "3", "4", "5", "6", "7", "8", "9">>}
\* The options of the purpose select: the placeholder and two purposes.
FormPurposes == {"", "Interview", "Other"}

FormInputs ==
  ({"name"} \X FormNames) \cup ({"email"} \X FormEmails)
  \cup ({"phone"} \X FormPhones) \cup ({"purpose"} \X FormPurposes)

FormOutcomes == {HttpOk, HttpError(500, "", "")}

InitForm ==
  /\ InitPublic
  /\ tz = 0
  /\ apiCall = NoCall

FormTypes == \E in \in FormInputs : VfHandleChange(in[1], in[2])
FormAnswered == \E i \in 1..MaxInflight, out \in FormOutcomes : SubmitResponse(i, out)
\* VisitorSuccess.handleSubmitAnother
SubmitAnother == location = "/success" /\ Navigate("/")

NextForm ==
  \/ FormTypes
  \/ VfHandleSubmit
  \/ FormAnswered
  \/ VfTimerFires
  \/ SubmitAnother

SpecForm == InitForm /\ [][NextForm]_vars

\* The validation rules as the specification words them.
NameRule(name) == Len(Trim(name)) >= 2
EmailRule(email) ==
  /\ \A i \in 1..Len(email) : ~IsWs(email[i])
  /\ Cardinality({i \in 1..Len(email) : email[i] = "@"}) = 1
  /\ \E i, j \in 1..Len(email) :
       email[i] = "@" /\ email[j] = "." /\ 1 < i /\ i + 1 < j /\ j < Len(email)
PhoneRule(phone) ==
  LET digits == SelectSeq(phone, LAMBDA c : c # " " /\ c # "-")
  IN /\ Len(digits) \in 10..15
     /\ \A i \in 1..Len(digits) : IsDigit(digits[i])
PurposeRule(purpose) == purpose \in purposeOptions

\* The fields of the form data fd that violate their rule.
RuleBreakers(fd) ==
  {f \in {"name", "email", "phone", "purpose"} :
     \/ f = "name" /\ ~NameRule(fd.name)
     \/ f = "email" /\ ~EmailRule(fd.email)
     \/ f = "phone" /\ ~PhoneRule(fd.phone)
     \/ f = "purpose" /\ ~PurposeRule(fd.purpose)}

\* The step is a submission of the registration form.
SubmitStep == lastEvent' = Event("handleSubmit", "submitVisitorForm", 0, TRUE, FALSE)

Crowd ==
  [i \in 1..(itemsPerPage + 1) |->
     [BlankVisitor EXCEPT !.id = 10 + i, !.name = <<"G">>, !.email = <<"g", "@", "x">>,
                          !.phone = <<"1">>, !.purpose = "Interview",
                          !.checkin_time = At(i, 0)]]

ViewerListBodies ==
  {ListBody("array", <<Alice, Bob>>, 0, ZeroStats),
   ListBody("paginated", <<Carol, Dora, Alice>>, 3, ZeroStats),
   ListBody("array", <<Alice, NoTime, Bob>>, 0, ZeroStats),
   ListBody("array", <<NoMail, Bob>>, 0, ZeroStats),
   ListBody("array", Crowd, 0, ZeroStats)}

ViewerOutcomes == {HttpOk, HttpError(500, "", "")}
ViewerSearches == {Empty, <<"b", "o">>, <<"c", "a", "l", "l">>}
ViewerPurposes == {"", "Interview"}
ViewerStarts == {Absent, 16}
ViewerEnds == {Absent, 15}
ViewerDeleteIds == {1, 10 + itemsPerPage + 1}

InitViewer ==
  /\ location = VisitorsPath
  /\ guard = "Authenticated"
  /\ crashed = FALSE
  /\ authToken = "jwt-1"
  /\ adminUser = "{username}"
  /\ inflight = MountRequests(VisitorsPath, "jwt-1")
  /\ lastEvent = UiEvent("load")
  /\ InitScreens
  /\ tz \in {0, 1}
  /\ apiCall = NoCall

ViewerAnswered ==
  \E i \in 1..MaxInflight, out \in ViewerOutcomes, data \in ViewerListBodies :
    VisitorsResponse(i, out, data)
ViewerDeletes == \E id \in ViewerDeleteIds, confirmed \in BOOLEAN : HandleDelete(id, confirmed)
ViewerDeleteAnswered ==
  \E i \in 1..MaxInflight, out \in ViewerOutcomes : DeleteResponse(i, out)
ViewerTypesSearch == \E s \in ViewerSearches : SetSearchTerm(s)
ViewerPicksPurpose == \E pf \in ViewerPurposes : SetPurposeFilter(pf)
ViewerPicksStart == \E d \in ViewerStarts : SetDateStart(d)
ViewerPicksEnd == \E d \in ViewerEnds : SetDateEnd(d)
ViewerPaginates == \E n \in 1..3 : Paginate(n)
ViewerNows == {At(15, 0)}
ViewerExports == \E now \in ViewerNows : ExportToCSV(now)

NextViewer ==
  \/ Refresh
  \/ ViewerAnswered
  \/ ViewerDeletes
  \/ ViewerDeleteAnswered
  \/ ViewerTypesSearch
  \/ ViewerPicksPurpose
  \/ ViewerPicksStart
  \/ ViewerPicksEnd
  \/ ClearFilters
  \/ ToggleSort
  \/ ViewerPaginates
  \/ ViewerExports

SpecViewer == InitViewer /\ [][NextViewer]_vars

\* ------------------------------------------------------------------------
\* The viewer's predicates as the specification words them
\* ------------------------------------------------------------------------
\* The search string, compared case-insensitively, is a substring of the
\* name, of the email or of the phone; the empty string matches everything.
SearchRule(v, search) ==
  \/ search = Empty
  \/ Includes(ToLowerCase(DisplayName(v)), ToLowerCase(search))
  \/ Includes(ToLowerCase(OrElse(v.email, Empty)), ToLowerCase(search))
  \/ Includes(ToLowerCase(DisplayPhone(v)), ToLowerCase(search))

PurposeRuleOfFilter(v, pf) == pf = "" \/ pf = "All" \/ v.purpose = pf

\* The local calendar date of the check-in lies within the bounds set.
DateRule(v, range, z) ==
  /\ range.start # Absent => (TimeOf(v) # NaN /\ LocalDate(TimeOf(v), z) >= range.start)
  /\ range.end # Absent => (TimeOf(v) # NaN /\ LocalDate(TimeOf(v), z) <= range.end)

\* Any two members of list with distinct valid timestamps stand newest
\* first under "desc" and oldest first under "asc".
OrderedByTime(list, order) ==
  \A i, j \in 1..Len(list) :
    (i < j /\ TimeOf(list[i]) # NaN /\ TimeOf(list[j]) # NaN
       /\ TimeOf(list[i]) # TimeOf(list[j]))
      => IF order = "desc" THEN TimeOf(list[i]) > TimeOf(list[j])
         ELSE TimeOf(list[i]) < TimeOf(list[j])

\* The visitors screen is mounted and its filter effect has run.
Filtered == OnVisitors

\* C7: the filtered list holds exactly the raw records that satisfy the
\* search rule, the purpose rule and the date rule, in the order of the
\* sort rule.
C7_FilteredIsFunctionOfFilters ==
  Filtered =>
    /\ Elems(filteredVisitors) =
         {v \in Elems(visitors) :
            /\ SearchRule(v, searchTerm)
            /\ PurposeRuleOfFilter(v, purposeFilter)
            /\ DateRule(v, dateRange, tz)}
    /\ OrderedByTime(filteredVisitors, sortOrder)

\* C8: with no other filter set, a record is in the filtered list iff the
\* search string is, case-insensitively, a substring of its name, email or
\* phone.
C8_SearchIsCaseInsensitive ==
  (Filtered /\ purposeFilter = "" /\ dateRange = NoRange) =>
    \A v \in Elems(visitors) :
      (v \in Elems(filteredVisitors)) <=> SearchRule(v, searchTerm)

\* C9: with no other filter set, a record with a valid timestamp is in the
\* filtered list iff the local calendar date of its timestamp lies within
\* the bounds set.
C9_DateFilterUsesLocalDate ==
  (Filtered /\ searchTerm = Empty /\ purposeFilter = "") =>
    \A v \in Elems(visitors) :
      TimeOf(v) # NaN =>
        ((v \in Elems(filteredVisitors)) <=> DateRule(v, dateRange, tz))

\* The position of record v in list.
Position(list, v) == CHOOSE i \in 1..Len(list) : list[i] = v

\* C10: the filtered list is ordered by timestamp in the chosen direction,
\* and a click on the sort toggle reverses the relative order of any two
\* records with distinct valid timestamps.
C10_ToggleReversesOrder ==
  [][(lastEvent' = UiEvent("toggleSort") /\ ~crashed') =>
       /\ OrderedByTime(filteredVisitors', sortOrder')
       /\ \A a, b \in Elems(filteredVisitors) \cap Elems(filteredVisitors') :
            (TimeOf(a) # NaN /\ TimeOf(b) # NaN /\ TimeOf(a) # TimeOf(b))
              => ((Position(filteredVisitors, a) < Position(filteredVisitors, b))
                    <=> (Position(filteredVisitors', b) < Position(filteredVisitors', a)))]_vars

\* ------------------------------------------------------------------------
\* Pagination
\* ------------------------------------------------------------------------
\* The pages 1..n of list, one after the other.
RECURSIVE PagesUpTo(_, _)
PagesUpTo(list, n) ==
  IF n = 0 THEN <<>> ELSE PagesUpTo(list, n - 1) \o PageItems(list, n)

\* C11: the page count is ceil(|S| / 10); page n holds the records
\* S[(n-1)*10 .. n*10); the pages in order make up S again, without overlap
\* or gap, and no page holds more than 10 records.
C11_PagesPartitionFiltered ==
  OnVisitors =>
    LET S == filteredVisitors
        pages == TotalPages(S)
    IN /\ pages * itemsPerPage >= Len(S)
       /\ (pages - 1) * itemsPerPage < Len(S) \/ (pages = 0 /\ Len(S) = 0)
       /\ \A n \in 1..pages :
            /\ PageItems(S, n) =
                 [k \in 1..(MinOf({n * itemsPerPage, Len(S)}) - (n - 1) * itemsPerPage)
                    |-> S[(n - 1) * itemsPerPage + k]]
            /\ Len(PageItems(S, n)) <= itemsPerPage
            /\ Len(PageItems(S, n)) > 0
       /\ PagesUpTo(S, pages) = S

\* The second page of an eleven-record list is shown: it holds the one
\* record that did not fit on the first.
C11_Witness ==
  /\ OnVisitors
  /\ Len(filteredVisitors) = itemsPerPage + 1
  /\ currentPage = 2
  /\ PageItems(filteredVisitors, currentPage) = <<filteredVisitors[itemsPerPage + 1]>>

\* The step changed a filter input of the visitors screen and the filter
\* effect ran to its end.
FilterInputStep ==
  /\ lastEvent'.kind \in
       {"setSearchTerm", "setPurposeFilter", "setDateRange", "clearFilters", "toggleSort"}
  /\ ~crashed'

\* C12: after every change of the search string, the purpose, a date bound
\* or the sort direction, and after Clear All Filters, the current page is
\* 1, whatever page was shown before.
C12_FilterChangeResetsPage ==
  [][FilterInputStep => currentPage' = 1]_vars

\* The sort toggle was clicked on a list of two pages and the first page is
\* shown.
C12_Witness ==
  /\ lastEvent = UiEvent("toggleSort")
  /\ ~crashed
  /\ TotalPages(filteredVisitors) = 2
  /\ currentPage = 1

\* ------------------------------------------------------------------------
\* The dashboard alone: an admin session loaded at /admin/dashboard
\* ------------------------------------------------------------------------
\* A record checked in at instant t.
Visit(id, t) ==
  [BlankVisitor EXCEPT !.id = id, !.name = <<"G">>, !.email = <<"g", "@", "x">>,
                       !.phone = <<"1">>, !.purpose = "Interview", !.checkin_time = t]

\* Day 15 is a Monday in the month of days 10..19; day 14 its Sunday.
\* Day 30 is a Tuesday and the first day of its month; its Sunday, day 28,
\* lies in the month before.
DashLists ==
  {<<Visit(1, At(15, 0)), Visit(2, At(15, 0)), Visit(3, At(15, 0))>>,
   <<Visit(1, At(14, 0)), Visit(2, At(15, 0)), Visit(3, At(16, 0))>>,
   <<Visit(1, At(28, 1)), Visit(2, At(29, 0)), Visit(3, At(30, 0))>>,
   <<Visit(1, At(9, 0)), [NoTime EXCEPT !.created_at = At(15, 0)], NoTime,
     [NoTime EXCEPT !.checkin_time = Garbage]>>}

DashBodies ==
  {ListBody("array", list, 0, ZeroStats) : list \in DashLists}
  \cup {ListBody("paginated", <<Visit(1, At(15, 0))>>, 50, ZeroStats),
        ListBody("totals", <<>>, 0, SomeTotals),
        ListBody("other", <<>>, 0, ZeroStats)}

\* Among the instants of aggregation, a Sunday in the second half of the day.
DashNows == {At(14, 1), At(15, 0), At(15, 1), At(30, 1)}
DashOutcomes == {HttpOk, HttpError(500, "", "")}

InitDash ==
  /\ location = DashboardPath
  /\ guard = "Authenticated"
  /\ crashed = FALSE
  /\ authToken = "jwt-1"
  /\ adminUser = "{username}"
  /\ inflight = MountRequests(DashboardPath, "jwt-1")
  /\ lastEvent = UiEvent("load")
  /\ InitScreens
  /\ tz \in TimeZones
  /\ apiCall = NoCall

DashAnswered ==
  \E i \in 1..MaxInflight, out \in DashOutcomes, data \in DashBodies, now \in DashNows :
    StatsResponse(i, out, data, now)

NextDash ==
  \/ RefreshStats
  \/ DashAnswered

SpecDash == InitDash /\ [][NextDash]_vars

\* The mounted dashboard has just aggregated locally over a bare array.
AggregatedArray ==
  /\ lastEvent.kind = "response"
  /\ lastEvent.op = "getDashboardStats"
  /\ "data" \in DOMAIN lastEvent
  /\ lastEvent.data.kind = "array"

\* The local calendar dates of the valid check-ins of list, by position.
CheckinDates(list, now, z) ==
  [i \in {k \in 1..Len(list) : ParseDate(StatsRawTime(list[k], now)) # NaN} |->
     LocalDate(StatsRawTime(list[i], now), z)]

\* How many valid check-ins of list have a date in the set days.
CountDated(list, now, z, days) ==
  Cardinality({i \in DOMAIN CheckinDates(list, now, z) :
                 CheckinDates(list, now, z)[i] \in days})

\* The calendar as the specification uses it.
Today(now, z) == LocalDate(now, z)
SundayOf(now, z) == LocalDate(now, z) - (LocalDate(now, z) % 7)
MonthOf(day) == day \div MonthLen
LastDay == 100

\* C13: after a local aggregation, total_visitors is the number of records
\* and today_visitors the number of records checked in on today's date.
C13_TodayCountsTodayOnly ==
  AggregatedArray =>
    /\ stats.total_visitors = Len(lastEvent.data.list)
    /\ stats.today_visitors =
         CountDated(lastEvent.data.list, lastEvent.now, tz, {Today(lastEvent.now, tz)})

\* C14: after a local aggregation, this_month_visitors is the number of
\* records checked in within the calendar month of the current moment.
C14_MonthCountsCurrentMonth ==
  AggregatedArray =>
    stats.this_month_visitors =
      CountDated(lastEvent.data.list, lastEvent.now, tz,
                 {d \in 0..LastDay : MonthOf(d) = MonthOf(Today(lastEvent.now, tz))})

\* C15: after a local aggregation, this_week_visitors is the number of
\* records checked in on or after the Sunday that starts the current week.
C15_WeekCountsFromSunday ==
  AggregatedArray =>
    stats.this_week_visitors =
      CountDated(lastEvent.data.list, lastEvent.now, tz,
                 {d \in 0..LastDay : d >= SundayOf(lastEvent.now, tz)})

\* ------------------------------------------------------------------------
\* CSV export, read back the way a CSV reader reads a file
\* ------------------------------------------------------------------------
\* Position i of file lies inside a quoted field.
InQuotes(file, i) == Cardinality({k \in 1..(i - 1) : file[k] = "\""}) % 2 = 1
\* The rows and fields of file: line breaks and commas outside quotes
\* separate them.
CsvRows(file) ==
  1 + Cardinality({i \in 1..Len(file) : file[i] = "\n" /\ ~InQuotes(file, i)})
CsvFields(file) ==
  CsvRows(file)
  + Cardinality({i \in 1..Len(file) : file[i] = "," /\ ~InQuotes(file, i)})

\* The step just taken exported the filtered list.
Exported == lastEvent.kind = "exportToCSV"

\* C16: the exported file starts with the header row, holds exactly one
\* row of six fields per record of the whole filtered list after it, and
\* is the header row alone for an empty filtered list.
C16_CsvOneRowPerRecord ==
  (Exported /\ OnVisitors) =>
    LET file == lastEvent.file
        header == <<"Name", ",", "Email", ",", "Phone", ",", "Purpose", ",",
                    "Message", ",", "Check-in Time">>
    IN /\ SubSeq(file, 1, Len(header)) = header
       /\ CsvRows(file) = 1 + Len(filteredVisitors)
       /\ CsvFields(file) = 6 * CsvRows(file)
       /\ filteredVisitors = <<>> => file = header

\* ------------------------------------------------------------------------
\* Deletion
\* ------------------------------------------------------------------------
\* The step sent a delete-visitor request.
SendsDelete ==
  /\ Len(inflight') = Len(inflight) + 1
  /\ inflight'[Len(inflight')].op = "deleteVisitor"

\* C17: a delete-visitor request is sent only by a click whose prompt was
\* accepted, and for the record clicked; a declined prompt sends nothing and
\* leaves the lists alone; a failed request shows an alert and leaves the
\* visitor list and the filtered list alone.
C17_DeleteNeedsConfirm ==
  [][/\ SendsDelete =>
          /\ lastEvent'.kind = "handleDelete"
          /\ lastEvent'.confirmed
          /\ inflight'[Len(inflight')].id = lastEvent'.id
     /\ lastEvent'.kind = "handleDelete" =>
          /\ visitors' = visitors
          /\ filteredVisitors' = filteredVisitors
          /\ ~lastEvent'.confirmed => inflight' = inflight
     /\ (lastEvent'.kind = "response" /\ lastEvent'.op = "deleteVisitor"
           /\ lastEvent'.status # 200 /\ OnVisitors') =>
          /\ lastEvent'.alert
          /\ visitors' = visitors
          /\ filteredVisitors' = filteredVisitors]_vars

\* A delete request failed: the alert was shown and the list still holds
\* its three records.
C17_Witness ==
  /\ lastEvent = Event("response", "deleteVisitor", 500, TRUE, TRUE)
  /\ Len(visitors) = 3
  /\ Len(filteredVisitors) = 3

\* ------------------------------------------------------------------------
\* Error texts
\* ------------------------------------------------------------------------
\* C18: when a 4xx/5xx response to a submission, a login or a deletion
\* carries a message, the text shown to the user is that message.
C18_BackendMessageShown ==
  (apiCall.shown # "" /\ apiCall.out.status >= 400 /\ apiCall.out.message # "") =>
    apiCall.shown = apiCall.out.message

\* ------------------------------------------------------------------------
\* Registration form: the purpose field
\* ------------------------------------------------------------------------
\* Change events of the registration form, among them one on the purpose
\* field whose value is not one of purposeOptions.
ValidateInputs ==
  {<<"name", <<"A", "l">>>>,
   <<"email", <<"a", "@", "b", ".", "c">>>>,
   <<"phone", <<"0", "1", "2", "3", "4", "5", "6", "7", "8", "9">>>>,
   <<"purpose", "">>, <<"purpose", "Interview">>, <<"purpose", "Sightseeing">>}

ValidateTypes == \E in \in ValidateInputs : VfHandleChange(in[1], in[2])

NextValidate ==
  \/ ValidateTypes
  \/ VfHandleSubmit
  \/ FormAnswered
  \/ VfTimerFires
  \/ SubmitAnother

SpecValidate == InitForm /\ [][NextValidate]_vars

C20_MissingTimeSortsAsNow ==
  Filtered =>
    /\ OrderedByTime(filteredVisitors, sortOrder)
    /\ \A i, j \in 1..Len(filteredVisitors) :
         (TimeOf(filteredVisitors[i]) = NaN /\ TimeOf(filteredVisitors[j]) # NaN)
           => IF sortOrder = "desc" THEN i < j ELSE j < i

\* ------------------------------------------------------------------------
\* Responses that outlive their screen
\* ------------------------------------------------------------------------
\* The step handles a response, other than a 401, to a request of a login,
\* a registration or a list or stats fetch whose screen has been left.
LateResponseStep ==
  /\ lastEvent'.kind = "response"
  /\ ~lastEvent'.live
  /\ lastEvent'.status # 401
  /\ lastEvent'.op \in {"adminLogin", "submitVisitorForm", "getDashboardStats", "getVisitors"}

\* C21: a response that arrives after the user has left the screen that
\* sent the request changes neither the current route nor anything the
\* displayed screen shows.
C21_LateResponseIsHarmless ==
  [][LateResponseStep => UNCHANGED <<routeVars, screenVars>>]_vars

\* ------------------------------------------------------------------------
\* Concurrent deletions
\* ------------------------------------------------------------------------
\* The step handles, on the mounted visitors screen, the success response of
\* a deletion.
DeletionHandled ==
  /\ lastEvent'.kind = "response"
  /\ lastEvent'.op = "deleteVisitor"
  /\ lastEvent'.status = 200
  /\ lastEvent'.live
  /\ ~crashed'

\* The ids of the records of list.
Ids(list) == {list[i].id : i \in 1..Len(list)}

\* The visitors screen with its list fetched once at mount and never again:
\* delete clicks and their responses in any interleaving.
DeletesListBodies ==
  {ListBody("array", <<Alice, Bob>>, 0, ZeroStats),
   ListBody("paginated", <<Carol, Dora, Alice>>, 3, ZeroStats)}

DeletesListAnswered ==
  \E i \in 1..MaxInflight, data \in DeletesListBodies : VisitorsResponse(i, HttpOk, data)
DeletesClicks == \E id \in 1..4 : HandleDelete(id, TRUE)

NextDeletes ==
  \/ DeletesListAnswered
  \/ DeletesClicks
  \/ ViewerDeleteAnswered
  \/ ToggleSort

SpecDeletes == InitViewer /\ [][NextDeletes]_vars

\* C22: once a deletion reported successful has been handled, the record is
\* absent from the raw and the filtered list, and, with no list fetch in
\* between, every record that was absent before stays absent.
C22_DeletedStaysAbsent ==
  [][DeletionHandled =>
       /\ \E i \in 1..Len(inflight) :
            /\ inflight[i].op = "deleteVisitor"
            /\ inflight' = RemoveAt(inflight, i)
            /\ inflight[i].id \notin Ids(visitors') \cup Ids(filteredVisitors')
       /\ Ids(visitors') \subseteq Ids(visitors)
       /\ Ids(filteredVisitors') \subseteq Ids(filteredVisitors)]_vars

\* ------------------------------------------------------------------------
\* Responses that outlive their session
\* ------------------------------------------------------------------------
\* The requests in flight that the response handled by the step may answer.
AnsweredCandidates ==
  {i \in 1..Len(inflight) :
     inflight[i].op = lastEvent'.op /\ inflight[i].live = lastEvent'.live}

\* The step handles a 401 answering a request that was sent without a token,
\* before the session now in the store began.
Late401Step ==
  /\ Handled401'
  /\ authToken # Null
  /\ AnsweredCandidates # {}
  /\ \A i \in AnsweredCandidates : inflight[i].tok = Null

\* C23: a 401 answering a request sent before the current session began
\* neither clears the token store of the current session nor sends the
\* logged-in admin to the login screen.
C23_Late401SparesSession ==
  [][Late401Step => UNCHANGED <<storeVars, location>>]_vars

\* C24: in every reachable state a profile is stored only if a token is
\* stored.
C24_ProfileOnlyWithToken == adminUser # Null => authToken # Null

\* The mounted dashboard has just aggregated locally, over a bare array or
\* the results of a paginated body.
AggregatedLocally ==
  /\ lastEvent.kind = "response"
  /\ lastEvent.op = "getDashboardStats"
  /\ "data" \in DOMAIN lastEvent
  /\ lastEvent.data.kind # "totals"

\* C25: the locally aggregated counts are ordered: today <= this week <=
\* this month <= total.
C25_CountsAreNested ==
  AggregatedLocally =>
    /\ stats.today_visitors <= stats.this_week_visitors
    /\ stats.this_week_visitors <= stats.this_month_visitors
    /\ stats.this_month_visitors <= stats.total_visitors

\* ------------------------------------------------------------------------
\* The current page
\* ------------------------------------------------------------------------
\* C26: on the visitors screen the current page lies between 1 and the
\* page count (or is 1 when there is no page), so the displayed page is not
\* empty whenever the filtered list is not.
C26_PageWithinRange ==
  OnVisitors =>
    /\ currentPage >= 1
    /\ currentPage <= MaxOf({1, TotalPages(filteredVisitors)})
    /\ filteredVisitors # <<>> => PageItems(filteredVisitors, currentPage) # <<>>

\* A deletion was handled that took the filtered list from two pages to one.
C26_Witness ==
  /\ OnVisitors
  /\ lastEvent = Event("response", "deleteVisitor", 200, TRUE, FALSE)
  /\ Len(filteredVisitors) = itemsPerPage
  /\ currentPage = 1

\* ------------------------------------------------------------------------
\* Records with missing fields
\* ------------------------------------------------------------------------
\* C27: the filter step completes for every raw list: no record makes it
\* fail, so the visitors screen never loses its tree.
C27_FiltersNeverFail == location = VisitorsPath => ~crashed

\* ------------------------------------------------------------------------
\* The loading flag of the visitors screen
\* ------------------------------------------------------------------------
\* C28: the loading flag is set in every state in which a list request of
\* the mounted visitors screen is still in flight.
C28_LoadingWhileFetching == (OnVisitors /\ LiveCount("getVisitors") > 0) => vLoading

\* ------------------------------------------------------------------------
\* The error banner of the registration form
\* ------------------------------------------------------------------------
\* A timer fires and hides the error banner.
TimerHidesBanner ==
  /\ lastEvent'.kind = "timer"
  /\ vfStatus = "error"
  /\ vfStatus' = Null

\* C29: the timer that hides the error banner is the one started by the
\* failure the banner reports.  The timers run equally long, so they fire
\* in the order of their failures and the banner shown is that of the last
\* failure: its own timer is the one after which none is pending.
C29_BannerHiddenByOwnTimer == [][TimerHidesBanner => vfTimers' = 0]_vars

\* ------------------------------------------------------------------------
\* A list fetch that fails
\* ------------------------------------------------------------------------
\* The step handles, on the visitors screen, a failed response to a list
\* fetch (a 401 replaces the document: see C1).
FetchFailedStep ==
  /\ OnVisitors
  /\ lastEvent'.kind = "response"
  /\ lastEvent'.op = "getVisitors"
  /\ lastEvent'.status \notin {200, 401}

\* C30: a list fetch that fails leaves the raw list, the filtered list, the
\* filter inputs and the current page unchanged; it only clears the loading
\* flag of the screen that awaits it.
C30_FailedFetchKeepsLists ==
  [][FetchFailedStep =>
       /\ UNCHANGED <<visitors, filteredVisitors, searchTerm, purposeFilter,
                      dateRange, sortOrder, currentPage>>
       /\ vLoading' = (IF lastEvent'.live THEN FALSE ELSE vLoading)]_vars

\* A refresh failed on the second page of a list: the page is still shown.
C30_Witness ==
  /\ OnVisitors
  /\ lastEvent = Event("response", "getVisitors", 500, TRUE, FALSE)
  /\ Len(visitors) = itemsPerPage + 1
  /\ currentPage = 2
  /\ ~vLoading

====
